---- MODULE Spec2Model ----
(***************************************************************************)
(* A model of omarchy-wallpaper-picker: the background ImageEncoder        *)
(* (src/src/encoder.rs), the App navigation / search / reload state        *)
(* (src/src/app.rs), the grid layout of render_grid (src/src/ui.rs) and    *)
(* the event loop of run (src/src/main.rs).                                *)
(*                                                                         *)
(* Rust's Option<T> is a sequence of length at most one: None is <<>> and  *)
(* Some(x) is <<x>>.  A HashMap<K, V> is a total function over the keys of *)
(* the model whose value is an Option<V>.  Indices into Vec are 0-based as *)
(* in the source; the element at index i of a Vec v is v[i + 1].           *)
(***************************************************************************)
EXTENDS Integers, Sequences, FiniteSets, TLC

VARIABLES
    \* ---- ImageEncoder (encoder.rs:33-41) and its worker thread
    cache,          \* ImageEncoder.cache: CacheKey -> Option<StatefulProtocol>
    pending,        \* ImageEncoder.pending: CacheKey -> Option<bool>
    reqQ,           \* the EncodeRequest channel (req_tx -> req_rx)
    resQ,           \* the EncodeResult channel (res_tx -> res_rx)
    wjob,           \* the request the worker holds between recv and send
    rpc,            \* position of the owning thread: "idle" or inside poll_results
    \* ---- history variables (not program state; they only record the past)
    requested,      \* keys passed to request_encode since the last clear_cache
    lastDone,       \* per key, the protocol of the job the worker finished last
    pollSnap,       \* keys of the results that were queued when poll_results was called
    pollLeft,       \* how many of those results poll_results has not received yet
    lastOp,         \* the last ImageEncoder method the owning thread completed
    \* ---- App (app.rs:16-33)
    wallpapers,         \* App.wallpapers: Vec<Wallpaper>
    filtered_indices,   \* App.filtered_indices: Vec<usize>
    selected,           \* App.selected
    columns,            \* App.columns
    mode,               \* App.mode
    should_quit,        \* App.should_quit
    search_query,       \* App.search_query, a sequence of characters
    current_view_dir,   \* App.current_view_dir: Option<PathBuf>
    image_states,       \* app.image_states of ui.rs:199-210: index -> Option<protocol>
    \* ---- run (main.rs:35-153) and the terminal
    needs_redraw,       \* the local needs_redraw of run
    term,               \* the terminal size <<width, height>> that frame.area() reports
    outcome,            \* "running", or how run ended: "ok", "err" or "panicked"
    \* ---- history variable
    lastFrame,          \* catalog indices whose image the last drawn frame rendered
    \* ---- the worker thread as a whole
    worker,             \* the thread's state, "running", "panicked" or "exited", and the job it unwound on
    \* ---- history variable
    trail               \* the last two key handlers that ran, and the selection before each

encVars == <<cache, pending, reqQ, resQ, wjob, rpc>>
histVars == <<requested, lastDone, pollSnap, pollLeft, lastOp>>
appVars == <<wallpapers, filtered_indices, selected, columns, mode, should_quit,
             search_query, current_view_dir, image_states>>
runVars == <<needs_redraw, term, outcome, lastFrame>>
sideVars == <<worker, trail>>
vars == <<encVars, histVars, appVars, runVars, sideVars>>

\* ------------------------------------------------------------------ bounds

\* Jobs that may be in the pipeline at once (request queue + worker + result
\* queue); the channels of the source are unbounded.
MaxInFlight == 2

\* ------------------------------------------------------------------ Option

None == <<>>
Some(x) == <<x>>
is_some(o) == o # <<>>
unwrap(o) == o[1]

\* ------------------------------------------------------------------ encoder data

Indices == {0, 1}
Sizes == {<<30, 15>>, <<60, 30>>}
Images == {"imgA", "imgB"}

CacheKey(index, width, height) ==
    [index |-> index, width |-> width, height |-> height]

\* The keys of the model: item 0 at two cell sizes, item 1 at one.
Keys ==
    {CacheKey(i, s[1], s[2]) : i \in Indices, s \in Sizes}
        \ {CacheKey(1, 60, 30)}

\* picker.new_resize_protocol(image): the protocol object built from an image.
new_resize_protocol(image) == [source |-> image]

\* stale is a history field: TRUE once a clear_cache has run since the
\* request was sent.  No code reads it.
EncodeRequest(index, image, width, height) ==
    [index |-> index, image |-> image, width |-> width, height |-> height,
     stale |-> FALSE]

EncodeResultOfItemZero(request) ==
    [index |-> 0, width |-> request.width, height |-> request.height,
     protocol |-> new_resize_protocol(request.image),
     stale |-> request.stale]

\* EncodeResult { index, width, height, protocol } of the worker
\* (encoder.rs:53-58).
EncodeResult(request) ==
    [index |-> request.index, width |-> request.width,
     height |-> request.height,
     protocol |-> new_resize_protocol(request.image),
     stale |-> request.stale]

KeyOf(m) == CacheKey(m.index, m.width, m.height)

\* ------------------------------------------------------------------ HashMap

EmptyMap == [k \in Keys |-> None]
contains_key(m, k) == is_some(m[k])
insert_evicting_sizes(m, k, v) ==
    [j \in Keys |-> IF j = k THEN Some(v)
                    ELSE IF j.index = k.index THEN None ELSE m[j]]
insert(m, k, v) == [m EXCEPT ![k] = Some(v)]
remove(m, k) == [m EXCEPT ![k] = None]
len(m) == Cardinality({k \in Keys : is_some(m[k])})

\* ------------------------------------------------------------------ queues

MarkStale(q) == [i \in 1..Len(q) |-> [q[i] EXCEPT !.stale = TRUE]]

\* Everything in flight: queued requests, the worker's job, queued results.
InFlightCount == Len(reqQ) + Len(wjob) + Len(resQ)

\* What lastOp records of a completed call: the method, its key argument, for
\* request_encode whether a request was sent, for clear_cache the keys that
\* were Present before it, for poll_results the keys of the results that were
\* queued at the call and how many of those results it did not receive.
OpRecord(op, key, keys, sent, left) ==
    [op |-> op, key |-> key, keys |-> keys, sent |-> sent, left |-> left]

\* ------------------------------------------------------------------ Init

\* The thread spawned at encoder.rs:48, inside its loop.
WorkerRunning == [state |-> "running", failed |-> None]

\* ImageEncoder::new: two fresh channels, a spawned worker, two empty maps.
EncoderNew ==
    /\ cache = EmptyMap
    /\ pending = EmptyMap
    /\ reqQ = <<>>
    /\ resQ = <<>>
    /\ wjob = None
    /\ rpc = "idle"
    /\ worker = WorkerRunning

HistInit ==
    /\ requested = {}
    /\ lastDone = [k \in Keys |-> None]
    /\ pollSnap = {}
    /\ pollLeft = 0
    /\ lastOp = OpRecord("new", None, {}, FALSE, 0)
    /\ trail = <<>>

\* ------------------------------------------------------------------ worker

\* while let Ok(request) = req_rx.recv(): blocks while the queue is empty.
WorkerRecv ==
    /\ wjob = None
    /\ reqQ # <<>>
    /\ wjob' = Some(Head(reqQ))
    /\ reqQ' = Tail(reqQ)
    /\ UNCHANGED <<cache, pending, resQ, rpc, histVars>>

\* new_resize_protocol(request.image) panics.  Nothing in the closure
\* catches it: the thread unwinds, the request it held is dropped, and so are
\* req_rx, with the requests still queued in it, and res_tx.  Results sent
\* before stay in the result channel.
WorkerPanic ==
    /\ worker.state = "running"
    /\ wjob # None
    /\ worker' = [state |-> "panicked", failed |-> wjob]
    /\ wjob' = None
    /\ reqQ' = <<>>
    /\ UNCHANGED <<cache, pending, resQ, rpc, histVars>>

\* let _ = res_tx.send(..) (encoder.rs:51-56): the result is queued, or is
\* dropped with the Err that is ignored when the ImageEncoder, and with it the
\* receiver rx, has been dropped.
res_send(q, result) == IF rpc = "dropped" THEN q ELSE Append(q, result)

\* A worker that holds the cache and stores what it has encoded itself.
WorkerSendStoring ==
    /\ wjob # None
    /\ LET request == unwrap(wjob)
           result == EncodeResult(request)
       IN  /\ resQ' = res_send(resQ, result)
           /\ cache' = insert(cache, KeyOf(request), result.protocol)
           /\ lastDone' = [lastDone EXCEPT ![KeyOf(request)] = Some(result.protocol)]
    /\ wjob' = None
    /\ UNCHANGED <<pending, reqQ, rpc, requested, pollSnap, pollLeft, lastOp>>

\* new_resize_protocol(request.image), then res_tx.send(EncodeResult {..}).
WorkerSend ==
    /\ wjob # None
    /\ LET request == unwrap(wjob)
           result == EncodeResult(request)
       IN  /\ resQ' = res_send(resQ, result)
           /\ lastDone' = [lastDone EXCEPT ![KeyOf(request)] = Some(result.protocol)]
    /\ wjob' = None
    /\ UNCHANGED <<cache, pending, reqQ, rpc, requested, pollSnap, pollLeft, lastOp>>

\* ------------------------------------------------------------------ ImageEncoder

OnlyCacheChecked(key) == contains_key(cache, key)

OnlyPendingChecked(key) == contains_key(pending, key)

\* The early return of request_encode (encoder.rs:81).
AlreadyCachedOrPending(key) ==
    contains_key(cache, key) \/ contains_key(pending, key)

MarkPendingForgotten(key) == pending

\* self.pending.insert(key, true) (encoder.rs:85).
MarkPending(key) == insert(pending, key, TRUE)

\* let _ = self.tx.send(..) (encoder.rs:86-91): the request is queued, or is
\* dropped with the Err that is ignored when the worker has dropped req_rx.
tx_send(q, request) == IF worker.state = "running" THEN Append(q, request) ELSE q

request_encode(index, image, width, height) ==
    LET key == CacheKey(index, width, height) IN
    /\ rpc = "idle"
    /\ IF AlreadyCachedOrPending(key)
       THEN /\ UNCHANGED <<pending, reqQ>>
            /\ lastOp' = OpRecord("request_encode", Some(key), {}, FALSE, 0)
       ELSE /\ InFlightCount < MaxInFlight
            /\ pending' = MarkPending(key)
            /\ reqQ' = tx_send(reqQ, EncodeRequest(index, image, width, height))
            /\ lastOp' = OpRecord("request_encode", Some(key), {}, TRUE, 0)
    /\ requested' = requested \cup {key}
    /\ UNCHANGED <<cache, resQ, wjob, rpc, lastDone, pollSnap, pollLeft>>

\* One iteration of `while let Ok(result) = self.rx.try_recv()`: a result is
\* there and the loop body runs.
PollRecv ==
    /\ resQ # <<>>
    /\ LET result == Head(resQ)
           key == KeyOf(result)
       IN  /\ pending' = remove(pending, key)
           /\ cache' = insert(cache, key, result.protocol)
    /\ resQ' = Tail(resQ)
    /\ rpc' = "polling"
    /\ IF rpc = "idle"
       THEN /\ pollSnap' = {KeyOf(resQ[i]) : i \in 1..Len(resQ)}
            /\ pollLeft' = Len(resQ) - 1
       ELSE /\ pollSnap' = pollSnap
            /\ pollLeft' = IF pollLeft > 0 THEN pollLeft - 1 ELSE 0
    /\ UNCHANGED <<reqQ, wjob, requested, lastDone, lastOp>>

\* A blocking recv() never reports an empty queue: it waits for the worker.
BlockingRecvEmpty == FALSE

\* try_recv finds the queue empty (Err(TryRecvError::Empty)).
TryRecvEmpty == resQ = <<>>

\* try_recv returns Err: the loop ends and poll_results returns.
PollReturn ==
    /\ TryRecvEmpty
    /\ rpc' = "idle"
    /\ lastOp' = OpRecord("poll_results", None,
                          IF rpc = "idle" THEN {} ELSE pollSnap, FALSE,
                          IF rpc = "idle" THEN 0 ELSE pollLeft)
    /\ pollSnap' = {}
    /\ pollLeft' = 0
    /\ UNCHANGED <<cache, pending, reqQ, resQ, wjob, requested, lastDone>>

get_cached(index, width, height) == cache[CacheKey(index, width, height)]

cache_len == len(cache)

PendingKept == pending

\* self.pending.clear() (encoder.rs:116).
PendingCleared == EmptyMap

clear_cache ==
    /\ rpc = "idle"
    /\ cache' = EmptyMap
    /\ pending' = PendingCleared
    /\ reqQ' = MarkStale(reqQ)
    /\ resQ' = MarkStale(resQ)
    /\ wjob' = MarkStale(wjob)
    /\ requested' = {}
    /\ lastOp' = OpRecord("clear_cache", None,
                          {k \in Keys : contains_key(cache, k)}, FALSE, 0)
    /\ UNCHANGED <<rpc, lastDone, pollSnap, pollLeft>>

\* ------------------------------------------------------------------ arithmetic

saturating_sub(a, b) == IF a >= b THEN a - b ELSE 0
min(a, b) == IF a <= b THEN a ELSE b
clamp(x, lo, hi) == IF x < lo THEN lo ELSE IF x > hi THEN hi ELSE x

\* ------------------------------------------------------------------ strings

\* A string is a sequence of one-character strings.
Alphabet == {"A", "B", "a", "b"}

\* The byte value of a character, which str::cmp orders by.
Code(c) == CASE c = "A" -> 65 [] c = "B" -> 66 [] c = "a" -> 97 [] c = "b" -> 98

\* char::to_lowercase.
LowerChar(c) == CASE c = "A" -> "a" [] c = "B" -> "b" [] OTHER -> c

\* str::to_lowercase.
to_lowercase(str) == [i \in 1..Len(str) |-> LowerChar(str[i])]

\* str::contains(&pat): pat occurs in str as a contiguous substring.
contains(str, pat) ==
    \E start \in 0..(Len(str) - Len(pat)) :
        SubSeq(str, start + 1, start + Len(pat)) = pat

\* str::cmp(a, b) == Ordering::Less: lexicographic by byte.
StrLess(a, b) ==
    \E i \in 1..(min(Len(a), Len(b)) + 1) :
        /\ \A j \in 1..(i - 1) : a[j] = b[j]
        /\ IF i > Len(a) THEN i <= Len(b)
           ELSE i <= Len(b) /\ Code(a[i]) < Code(b[i])

\* String::pop: the string without its last character (unchanged when empty).
pop(str) == IF Len(str) = 0 THEN str ELSE SubSeq(str, 1, Len(str) - 1)

\* ------------------------------------------------------------------ file system

\* The directories of the model.  DefaultDir is get_backgrounds_dir(); of the
\* others one holds images, one does not exist and one cannot be read.
DefaultDir == "~/backgrounds"
OtherDirs == {"/pics", "/missing", "/denied"}

\* The stems of the files of the large directories: three of them hold the
\* letter a in either case, the others are made of b and B alone.
ManyStems ==
    << <<"b">>, <<"B">>, <<"b", "b">>, <<"b", "B">>, <<"B", "b">>, <<"B", "B">>,
       <<"b", "a">>, <<"b", "b", "b">>, <<"b", "b", "B">>, <<"b", "B", "b">>,
       <<"b", "B", "B">>, <<"B", "b", "b">>, <<"B", "b", "B">>, <<"B", "B", "b">>,
       <<"B", "A", "b">>, <<"B", "B", "B">>, <<"b", "b", "b", "b">>,
       <<"b", "b", "b", "B">>, <<"a", "b", "b", "b">>, <<"b", "b", "B", "b">> >>

\* ManyDirs[n] holds the first n of these files, none of which decodes.
ManyDirs ==
    << "/many/1", "/many/2", "/many/3", "/many/4", "/many/5", "/many/6",
       "/many/7", "/many/8", "/many/9", "/many/10", "/many/11", "/many/12",
       "/many/13", "/many/14", "/many/15", "/many/16", "/many/17", "/many/18",
       "/many/19", "/many/20" >>

\* An image file: the stem of its name, and whether image::open can decode it.
File(stem, decodable) == [stem |-> stem, decodable |-> decodable]

FileSystem(dir) ==
    CASE dir = DefaultDir ->
             [exists |-> TRUE, readable |-> TRUE,
              files |-> {File(<<"a", "b">>, TRUE), File(<<"B", "a">>, TRUE),
                         File(<<"b">>, FALSE)}]
      [] dir = "/pics" ->
             [exists |-> TRUE, readable |-> TRUE,
              files |-> {File(<<"a">>, TRUE), File(<<"a", "B">>, TRUE)}]
      [] dir = "/denied" ->
             [exists |-> TRUE, readable |-> FALSE, files |-> {}]
      [] \E n \in 1..Len(ManyDirs) : dir = ManyDirs[n] ->
             [exists |-> TRUE, readable |-> TRUE,
              files |-> {File(ManyStems[i], FALSE) :
                            i \in 1..(CHOOSE n \in 1..Len(ManyDirs) : dir = ManyDirs[n])}]
      [] OTHER ->
             [exists |-> FALSE, readable |-> FALSE, files |-> {}]

\* The indices of the largest catalog (the largest directory's), which are
\* the keys image_states is held over.
CatalogIndices == 0..(Len(ManyStems) - 1)

\* ------------------------------------------------------------------ wallpaper.rs

Path(dir, stem) == [dir |-> dir, stem |-> stem]

\* Wallpaper::new: the name is the file stem, the thumbnail is not loaded.
Wallpaper(path) == [path |-> path, name |-> path.stem, thumbnail |-> None]

\* Wallpaper::load_thumbnail: keeps a loaded thumbnail, else loads one when
\* the file decodes.
load_thumbnail(w) ==
    IF is_some(w.thumbnail) THEN w
    ELSE IF \E f \in FileSystem(w.path.dir).files :
                f.stem = w.path.stem /\ f.decodable
         THEN [w EXCEPT !.thumbnail = Some([thumbnail_of |-> w.path])]
         ELSE w

\* wallpapers.sort_by(|a, b| a.name.cmp(&b.name)) over the entries read.
RECURSIVE sort_by_name(_)
sort_by_name(ws) ==
    IF ws = {} THEN <<>>
    ELSE LET first == CHOOSE w \in ws :
                          \A v \in ws \ {w} : StrLess(w.name, v.name)
         IN  <<first>> \o sort_by_name(ws \ {first})

\* discover_wallpapers(dir): Err when read_dir fails, the empty list when the
\* directory does not exist, else its image files sorted by name.
discover_wallpapers(dir) ==
    LET backgrounds_dir == IF is_some(dir) THEN unwrap(dir) ELSE DefaultDir
        fs == FileSystem(backgrounds_dir)
    IN  IF fs.exists /\ ~fs.readable
        THEN [ok |-> FALSE, value |-> <<>>]
        ELSE [ok |-> TRUE,
              value |-> sort_by_name(
                  {Wallpaper(Path(backgrounds_dir, f.stem)) : f \in fs.files})]

\* ------------------------------------------------------------------ app.rs

\* (0..n).collect()
RangeVec(n) == [i \in 1..n |-> i - 1]

\* iter().enumerate().filter(name contains query).map(index).collect()
RECURSIVE filter_collect(_, _, _)
filter_collect(ws, query, i) ==
    IF i >= Len(ws) THEN <<>>
    ELSE (IF contains(ws[i + 1].name, query) THEN <<i>> ELSE <<>>)
             \o filter_collect(ws, query, i + 1)

NamesNotLowered(ws) == ws

\* w.name.to_lowercase() of app.rs:96, for every item.
NamesLowered(ws) ==
    [i \in 1..Len(ws) |-> [ws[i] EXCEPT !.name = to_lowercase(ws[i].name)]]

\* The filtered view update_filter computes (app.rs:88-99).
FilterOf(ws, search) ==
    LET query == to_lowercase(search)
    IN  IF query = <<>> THEN RangeVec(Len(ws))
        ELSE filter_collect(NamesLowered(ws), query, 0)

SelectionKept(sel, view) == sel

\* Reset selection if out of bounds (app.rs:101-103).
SelectionAfterFilter(sel, view) == IF sel >= Len(view) THEN 0 ELSE sel

\* update_filter with the query as it will be.
update_filter(ws, search) ==
    /\ filtered_indices' = FilterOf(ws, search)
    /\ selected' = SelectionAfterFilter(selected, FilterOf(ws, search))

\* App::new followed by preload_thumbnails (main.rs:36-62): the default
\* directory is read, every index is visible, the selection is the position
\* of the current wallpaper in the catalog or 0 when it is not in it.
AppNew ==
    LET found == discover_wallpapers(None).value IN
    /\ wallpapers = [i \in 1..Len(found) |-> load_thumbnail(found[i])]
    /\ filtered_indices = RangeVec(Len(found))
    /\ selected \in {0} \cup {i \in CatalogIndices : i < Len(found)}
    /\ columns = 4
    /\ mode = "Grid"
    /\ should_quit = FALSE
    /\ search_query = <<>>
    /\ current_view_dir = None
    /\ image_states = [i \in CatalogIndices |-> None]

\* The App viewing dir in Grid mode with an empty query: App::new, then the
\* command "cd dir" (confirm_command, reload_wallpapers), then movement keys.
\* No frame has been drawn since App::new, so columns is still 4.
AppAt(dir) ==
    LET found == discover_wallpapers(Some(dir)).value IN
    /\ wallpapers = found
    /\ filtered_indices = RangeVec(Len(found))
    /\ selected \in {0} \cup {i \in CatalogIndices : i < Len(found)}
    /\ columns = 4
    /\ mode = "Grid"
    /\ should_quit = FALSE
    /\ search_query = <<>>
    /\ current_view_dir = Some(dir)
    /\ image_states = [i \in CatalogIndices |-> None]

search_input(c) ==
    /\ search_query' = Append(search_query, c)
    /\ update_filter(wallpapers, Append(search_query, c))
    /\ UNCHANGED <<wallpapers, columns, mode, should_quit, current_view_dir,
                   image_states, encVars, histVars>>

search_backspace ==
    /\ search_query' = pop(search_query)
    /\ update_filter(wallpapers, pop(search_query))
    /\ UNCHANGED <<wallpapers, columns, mode, should_quit, current_view_dir,
                   image_states, encVars, histVars>>

confirm_search ==
    /\ mode' = "Grid"
    /\ UNCHANGED <<wallpapers, filtered_indices, selected, columns, should_quit,
                   search_query, current_view_dir, image_states, encVars, histVars>>

cancel_search ==
    /\ search_query' = <<>>
    /\ update_filter(wallpapers, <<>>)
    /\ mode' = "Grid"
    /\ UNCHANGED <<wallpapers, columns, should_quit, current_view_dir,
                   image_states, encVars, histVars>>

start_search ==
    /\ mode' = "Search"
    /\ UNCHANGED <<wallpapers, filtered_indices, selected, columns, should_quit,
                   search_query, current_view_dir, image_states, encVars, histVars>>

start_command ==
    /\ mode' = "Command"
    /\ UNCHANGED <<wallpapers, filtered_indices, selected, columns, should_quit,
                   search_query, current_view_dir, image_states, encVars, histVars>>

cancel_command ==
    /\ mode' = "Grid"
    /\ UNCHANGED <<wallpapers, filtered_indices, selected, columns, should_quit,
                   search_query, current_view_dir, image_states, encVars, histVars>>

FilterNotRecomputed(ws, search) == filtered_indices

\* self.update_filter() of reload_wallpapers (app.rs:292): the view over the
\* new catalog.
ReloadedFilter(ws, search) == FilterOf(ws, search)

\* reload_wallpapers once current_view_dir is dir.  On Err the `?` returns
\* before anything is assigned; on Ok the catalog is replaced, the encoder
\* cache cleared, the filter recomputed and the selection set to 0.
\* ok' tells the caller which of the two happened.
reload_wallpapers(dir, ok) ==
    LET found == discover_wallpapers(dir) IN
    IF found.ok
    THEN /\ ok
         /\ wallpapers' = found.value
         /\ clear_cache
         /\ filtered_indices' = ReloadedFilter(found.value, search_query)
         /\ selected' = 0
    ELSE /\ ~ok
         /\ UNCHANGED <<wallpapers, filtered_indices, selected, encVars, histVars>>

\* The commands confirm_command tells apart: "cd <path>", "cd", anything else.
Commands ==
    {[verb |-> "cd", path |-> Some(d)] : d \in OtherDirs}
        \cup {[verb |-> "cd", path |-> None], [verb |-> "other", path |-> None]}

\* confirm_command with cmd the trimmed command_query.  An Err of
\* reload_wallpapers leaves through `?` before mode is set.
confirm_command(cmd, ok) ==
    /\ IF cmd.verb = "cd"
       THEN /\ current_view_dir' = cmd.path
            /\ reload_wallpapers(cmd.path, ok)
            /\ mode' = IF ok THEN "Grid" ELSE mode
       ELSE /\ ok
            /\ mode' = "Grid"
            /\ UNCHANGED <<wallpapers, filtered_indices, selected,
                           current_view_dir, encVars, histVars>>
    /\ UNCHANGED <<columns, should_quit, search_query, image_states>>

reset_view_dir(ok) ==
    /\ current_view_dir' = None
    /\ reload_wallpapers(None, ok)
    /\ UNCHANGED <<columns, mode, should_quit, search_query, image_states>>

MovesUpOnlyPastFirstRow(sel, cols) == sel > cols

\* if self.selected >= self.columns (app.rs:308).
MovesUp(sel, cols) == sel >= cols

move_up ==
    /\ selected' = IF MovesUp(selected, columns) THEN selected - columns ELSE selected
    /\ UNCHANGED <<wallpapers, filtered_indices, columns, mode, should_quit,
                   search_query, current_view_dir, image_states, encVars, histVars>>

MovesDownOntoEnd(sel, cols, n) == sel + cols <= n

\* if new_pos < self.filtered_indices.len() (app.rs:315), new_pos being
\* self.selected + self.columns.
MovesDown(sel, cols, n) == sel + cols < n

move_down ==
    /\ LET new_pos == selected + columns IN
       selected' = IF MovesDown(selected, columns, Len(filtered_indices))
                   THEN new_pos ELSE selected
    /\ UNCHANGED <<wallpapers, filtered_indices, columns, mode, should_quit,
                   search_query, current_view_dir, image_states, encVars, histVars>>

MovesLeftPastFirst(sel) == sel > 1

\* if self.selected > 0 (app.rs:321).
MovesLeft(sel) == sel > 0

\* The index move_left leaves selected (app.rs:321-323).
AfterMoveLeft(sel) == IF MovesLeft(sel) THEN sel - 1 ELSE sel

move_left ==
    /\ selected' = AfterMoveLeft(selected)
    /\ UNCHANGED <<wallpapers, filtered_indices, columns, mode, should_quit,
                   search_query, current_view_dir, image_states, encVars, histVars>>

MovesRightOntoEnd(sel, n) == sel < n

\* if self.selected + 1 < self.filtered_indices.len() (app.rs:327).
MovesRight(sel, n) == sel + 1 < n

\* The index move_right leaves selected (app.rs:327-329).
AfterMoveRight(sel, n) == IF MovesRight(sel, n) THEN sel + 1 ELSE sel

move_right ==
    /\ selected' = AfterMoveRight(selected, Len(filtered_indices))
    /\ UNCHANGED <<wallpapers, filtered_indices, columns, mode, should_quit,
                   search_query, current_view_dir, image_states, encVars, histVars>>

toggle_preview ==
    /\ mode' = CASE mode = "Grid" -> "Preview"
                 [] mode = "Preview" -> "Grid"
                 [] OTHER -> mode
    /\ UNCHANGED <<wallpapers, filtered_indices, selected, columns, should_quit,
                   search_query, current_view_dir, image_states, encVars, histVars>>

toggle_help ==
    /\ mode' = IF mode = "Help" THEN "Grid" ELSE "Help"
    /\ UNCHANGED <<wallpapers, filtered_indices, selected, columns, should_quit,
                   search_query, current_view_dir, image_states, encVars, histVars>>

\* escape in the modes the event loop calls it in (Grid, Preview, Help).
escape ==
    /\ IF mode = "Grid"
       THEN should_quit' = TRUE /\ mode' = mode
       ELSE should_quit' = should_quit /\ mode' = "Grid"
    /\ UNCHANGED <<wallpapers, filtered_indices, selected, columns,
                   search_query, current_view_dir, image_states, encVars, histVars>>

\* get(self.selected).and_then(|&idx| self.wallpapers.get(idx))
selected_wallpaper ==
    IF selected < Len(filtered_indices)
    THEN LET idx == filtered_indices[selected + 1]
         IN  IF idx < Len(wallpapers) THEN Some(wallpapers[idx + 1]) ELSE None
    ELSE None

\* apply_wallpaper: installs the selected wallpaper and points the current
\* background at it, which may fail; nothing happens with no selection.
\* current_wallpaper, which it sets, is not held by the model.
apply_wallpaper(ok) ==
    /\ ok \/ is_some(selected_wallpaper)
    /\ UNCHANGED <<appVars, encVars, histVars>>

\* ------------------------------------------------------------------ ui.rs

Rect(x, y, width, height) == [x |-> x, y |-> y, width |-> width, height |-> height]

\* Block::inner for Borders::ALL: one cell off every side.
BlockInner(area) ==
    Rect(IF area.width > 0 THEN area.x + 1 ELSE area.x,
         IF area.height > 0 THEN area.y + 1 ELSE area.y,
         saturating_sub(area.width, 2), saturating_sub(area.height, 2))

\* chunks[0] of render: the frame area above the status bar (1 row) or the
\* search bar (3 rows).
GridArea(size, m) ==
    LET bottom_height == IF m = "Search" THEN 3 ELSE 1
    IN  Rect(0, 0, size[1], saturating_sub(size[2], bottom_height))

MIN_CELL_WIDTH == 30
MAX_COLUMNS == 8
MIN_COLUMNS == 1

\* Reserve 1 column for scrollbar (ui.rs:63).
GridWidth(inner) == saturating_sub(inner.width, 1)

GridColumnsRoundedUp(grid_width) ==
    clamp((grid_width + MIN_CELL_WIDTH - 1) \div MIN_CELL_WIDTH, MIN_COLUMNS, MAX_COLUMNS)

GridColumnsNoMinimum(grid_width) == min(grid_width \div MIN_CELL_WIDTH, MAX_COLUMNS)

\* (grid_width / MIN_CELL_WIDTH).clamp(MIN_COLUMNS, MAX_COLUMNS) (ui.rs:71-72).
GridColumns(grid_width) ==
    clamp(grid_width \div MIN_CELL_WIDTH, MIN_COLUMNS, MAX_COLUMNS)

CellWidth(grid_width) == grid_width \div GridColumns(grid_width)

CellHeight(grid_width) == CellWidth(grid_width) \div 2

TotalRowsRoundedDown(total_items, cols) == total_items \div cols

\* (total_items + columns - 1) / columns (ui.rs:86).
TotalRows(total_items, cols) == (total_items + cols - 1) \div cols

VisibleFullRows(inner, cell_height) == inner.height \div cell_height

VisibleRowsFullOnly(inner, cell_height) == VisibleFullRows(inner, cell_height)

\* visible_full_rows plus one when a partial row remains (ui.rs:90-92).
VisibleRows(inner, cell_height) ==
    VisibleFullRows(inner, cell_height)
        + (IF inner.height % cell_height > 0 THEN 1 ELSE 0)

\* A grid that never scrolls.
ScrollOffsetTop(selected_row, total_rows, visible_full_rows) == 0

\* A scroll offset that centres the selected row and never stops at the end.
ScrollOffsetCentredOnly(selected_row, total_rows, visible_full_rows) ==
    saturating_sub(selected_row, visible_full_rows \div 2)

\* Scroll offset - keep selected row visible (ui.rs:95-101).
ScrollOffset(selected_row, total_rows, visible_full_rows) ==
    IF selected_row < visible_full_rows \div 2
    THEN 0
    ELSE IF selected_row >= saturating_sub(total_rows, visible_full_rows \div 2)
         THEN saturating_sub(total_rows, visible_full_rows)
         ELSE saturating_sub(selected_row, visible_full_rows \div 2)

\* The cells the two loops of render_grid hand to render_wallpaper_cell
\* (ui.rs:104-130), each with its filtered position and its area.  Only
\* evaluated with cell_height > 0.
GridCells(inner, total_items, sel) ==
    LET grid_width == GridWidth(inner)
        cols == GridColumns(grid_width)
        cell_width == CellWidth(grid_width)
        cell_height == CellHeight(grid_width)
        total_rows == TotalRows(total_items, cols)
        visible_full_rows == VisibleFullRows(inner, cell_height)
        scroll_offset == ScrollOffset(sel \div cols, total_rows, visible_full_rows)
        y(row) == inner.y + row * cell_height
        this_cell_height(row) ==
            min(cell_height, saturating_sub(inner.y + inner.height, y(row)))
    IN  {[pos |-> (scroll_offset + row) * cols + col,
          area |-> Rect(inner.x + col * cell_width, y(row),
                        saturating_sub(cell_width, 1),
                        saturating_sub(this_cell_height(row), 1))] :
            <<row, col>> \in
                {rc \in (0..(VisibleRows(inner, cell_height) - 1)) \X (0..(cols - 1)) :
                    /\ scroll_offset + rc[1] < total_rows
                    /\ (scroll_offset + rc[1]) * cols + rc[2] < total_items
                    /\ this_cell_height(rc[1]) >= 3}}

\* The cells of one frame: none when the filtered view is empty (ui.rs:49-60)
\* or cell_height is 0 (ui.rs:81-83).
FrameCells(inner) ==
    IF Len(filtered_indices) = 0 \/ CellHeight(GridWidth(inner)) = 0
    THEN {}
    ELSE GridCells(inner, Len(filtered_indices), selected)

\* render_grid panics: it divides by zero or takes an unsigned subtraction
\* below zero.  With an empty view it returns before any arithmetic
\* (ui.rs:49-60); grid_width / columns (ui.rs:77) divides by columns; past
\* the return on cell_height == 0 (ui.rs:81-83), which is all that guards the
\* divisions by cell_height (ui.rs:90-91), total_items + columns - 1
\* (ui.rs:86) and, when the scrollbar is drawn, inner.x + inner.width - 1
\* (ui.rs:142) subtract 1, and ui.rs:86-87 divide by columns again.  The
\* other divisors are the literals 30 and 2 and the other subtractions are
\* saturating.
LayoutFails(inner, total_items, sel) ==
    LET grid_width == GridWidth(inner)
        cols == GridColumns(grid_width)
    IN  /\ total_items > 0
        /\ \/ cols = 0
           \/ /\ cols > 0
              /\ CellHeight(grid_width) # 0
              /\ \/ total_items + cols < 1
                 \/ /\ TotalRows(total_items, cols) >
                           VisibleFullRows(inner, CellHeight(grid_width))
                    /\ inner.x + inner.width < 1

\* app.columns = columns (ui.rs:75), not reached with an empty filtered view.
FrameColumns(inner) ==
    IF Len(filtered_indices) = 0 THEN columns
    ELSE GridColumns(GridWidth(inner))

\* render_wallpaper_cell reaches its image part (ui.rs:155-157, 189-193).
CellShowsImage(area) ==
    /\ ~(area.width < 3 \/ area.height < 3)
    /\ BlockInner(area).width > 0
    /\ BlockInner(area).height > 1

\* ui::render: render_grid over chunks[0].  For every cell that shows an
\* image and whose index is not in image_states, the thumbnail is loaded if
\* missing and, when there is one, the protocol is built on the spot by
\* app.picker.new_resize_protocol and stored (ui.rs:199-208).
render ==
    LET inner == BlockInner(GridArea(term, mode))
        shown == {filtered_indices[c.pos + 1] :
                     c \in {d \in FrameCells(inner) : CellShowsImage(d.area)}}
    IN  /\ columns' = FrameColumns(inner)
        /\ lastFrame' = shown
        /\ wallpapers' =
              [i \in 1..Len(wallpapers) |->
                  IF (i - 1) \in lastFrame' /\ ~is_some(image_states[i - 1])
                  THEN load_thumbnail(wallpapers[i])
                  ELSE wallpapers[i]]
        /\ image_states' =
              [i \in CatalogIndices |->
                  IF /\ i \in lastFrame'
                     /\ ~is_some(image_states[i])
                     /\ is_some(wallpapers'[i + 1].thumbnail)
                  THEN Some(new_resize_protocol(unwrap(wallpapers'[i + 1].thumbnail)))
                  ELSE image_states[i]]
        /\ UNCHANGED <<filtered_indices, selected, mode, should_quit,
                       search_query, current_view_dir, encVars, histVars>>

\* ------------------------------------------------------------------ main.rs

\* The terminal sizes of the model: two columns with one full row, one
\* column with two full rows, and a terminal too small for any cell.
TermSizes == {<<64, 20>>, <<34, 40>>, <<4, 4>>}

\* Characters typed into the search bar, and the longest query of the model.
QueryChars == {"a", "B"}
MaxQuery == 2

\* The widest terminal of the layout specification: wide enough for more
\* than MAX_COLUMNS cells of MIN_CELL_WIDTH.
MaxTermWidth == 280

\* The state of run when the loop is entered (main.rs:36-66), in a terminal
\* of one of the given sizes.
RunEntered(sizes) ==
    /\ needs_redraw = TRUE
    /\ term \in sizes
    /\ outcome = "running"
    /\ lastFrame = {}

RunInit == RunEntered(TermSizes)

\* if app.should_quit { break } at the end of the iteration (main.rs:147).
LoopEnd == outcome' = IF should_quit' THEN "ok" ELSE "running"

\* main.rs:70-77 with an empty result queue: try_recv returns Empty at once,
\* cache_len is unchanged and had_new_images is false.
MainPoll ==
    /\ outcome = "running"
    /\ PollReturn
    /\ UNCHANGED <<appVars, runVars>>

\* main.rs:80-84, taken when needs_redraw holds and the frame time has passed.
Draw ==
    /\ outcome = "running"
    /\ needs_redraw
    /\ IF LayoutFails(BlockInner(GridArea(term, mode)),
                      Len(filtered_indices), selected)
       THEN /\ outcome' = "panicked"
            /\ UNCHANGED <<appVars, encVars, histVars, needs_redraw, term, lastFrame>>
       ELSE /\ render
            /\ needs_redraw' = FALSE
            /\ UNCHANGED <<term, outcome>>

\* Event::Resize (main.rs:89-91).
Resize ==
    /\ outcome = "running"
    /\ term' \in TermSizes \ {term}
    /\ needs_redraw' = TRUE
    /\ UNCHANGED <<appVars, encVars, histVars, outcome, lastFrame>>

\* A key press in Search mode (main.rs:97-103).
KeySearch(handler) ==
    /\ outcome = "running"
    /\ mode = "Search"
    /\ handler
    /\ needs_redraw' = TRUE
    /\ LoopEnd
    /\ UNCHANGED <<term, lastFrame>>

SearchEsc == KeySearch(cancel_search)
SearchEnter == KeySearch(confirm_search)
SearchBackspace == KeySearch(search_backspace)
SearchChar ==
    \E c \in QueryChars :
        /\ Len(search_query) < MaxQuery
        /\ KeySearch(search_input(c))

\* A key press in Command mode (main.rs:104-113).  The keys that edit
\* command_query and the completions change nothing the model holds.
CommandEsc ==
    /\ outcome = "running"
    /\ mode = "Command"
    /\ cancel_command
    /\ needs_redraw' = TRUE
    /\ LoopEnd
    /\ UNCHANGED <<term, lastFrame>>

\* KeyCode::Enter => app.confirm_command()? : an Err leaves run.
CommandEnterWith(cmd, ok) ==
    /\ outcome = "running"
    /\ mode = "Command"
    /\ confirm_command(cmd, ok)
    /\ needs_redraw' = TRUE
    /\ outcome' = IF ok THEN "running" ELSE "err"
    /\ UNCHANGED <<term, lastFrame>>

CommandEnter == \E cmd \in Commands, ok \in BOOLEAN : CommandEnterWith(cmd, ok)

\* A key press in the other modes (main.rs:114-140).
KeyGrid(handler) ==
    /\ outcome = "running"
    /\ mode \notin {"Search", "Command"}
    /\ handler
    /\ needs_redraw' = TRUE
    /\ LoopEnd
    /\ UNCHANGED <<term, lastFrame>>

KeyQuit ==
    KeyGrid(/\ should_quit' = TRUE
            /\ UNCHANGED <<wallpapers, filtered_indices, selected, columns, mode,
                           search_query, current_view_dir, image_states,
                           encVars, histVars>>)
KeyLeft == KeyGrid(move_left)
KeyDown == KeyGrid(move_down)
KeyUp == KeyGrid(move_up)
KeyRight == KeyGrid(move_right)
KeySlash == KeyGrid(start_search)
KeyColon == KeyGrid(start_command)
KeySpace == KeyGrid(toggle_preview)
KeyQuestion == KeyGrid(toggle_help)
KeyEsc == KeyGrid(escape)

\* KeyCode::Char('H') => app.reset_view_dir()? : an Err leaves run.
KeyResetDir ==
    \E ok \in BOOLEAN :
        /\ outcome = "running"
        /\ mode \notin {"Search", "Command"}
        /\ reset_view_dir(ok)
        /\ needs_redraw' = TRUE
        /\ outcome' = IF ok THEN "running" ELSE "err"
        /\ UNCHANGED <<term, lastFrame>>

\* KeyCode::Enter => app.apply_wallpaper()? : an Err leaves run.
KeyEnter ==
    \E ok \in BOOLEAN :
        /\ outcome = "running"
        /\ mode \notin {"Search", "Command"}
        /\ apply_wallpaper(ok)
        /\ needs_redraw' = TRUE
        /\ outcome' = IF ok THEN "running" ELSE "err"
        /\ UNCHANGED <<term, lastFrame>>

\* Any other key in these modes: needs_redraw = false (main.rs:139).
KeyOther ==
    /\ outcome = "running"
    /\ mode \notin {"Search", "Command"}
    /\ needs_redraw' = FALSE
    /\ UNCHANGED <<appVars, encVars, histVars, term, outcome, lastFrame>>

\* ------------------------------------------------------------------ specifications

\* The App fields as SpecEncoder holds them: the encoder of an App over the
\* default directory, with the terminal fixed.
AppIdle ==
    /\ AppNew
    /\ selected = 0
    /\ RunInit
    /\ term = <<64, 20>>

InitEncoder == EncoderNew /\ HistInit /\ AppIdle

RequestEncode ==
    \E k \in Keys, image \in Images :
        request_encode(k.index, image, k.width, k.height)

\* ImageEncoder driven through its public methods in any order by the thread
\* that owns it, with the worker thread running beside it.
NextEncoder ==
    \/ RequestEncode /\ UNCHANGED <<appVars, runVars, sideVars>>
    \/ PollRecv /\ UNCHANGED <<appVars, runVars, sideVars>>
    \/ PollReturn /\ UNCHANGED <<appVars, runVars, sideVars>>
    \/ clear_cache /\ UNCHANGED <<appVars, runVars, sideVars>>
    \/ WorkerRecv /\ UNCHANGED <<appVars, runVars, sideVars>>
    \/ WorkerSend /\ UNCHANGED <<appVars, runVars, sideVars>>

SpecEncoder == InitEncoder /\ [][NextEncoder]_vars

InitApp == EncoderNew /\ HistInit /\ AppNew /\ RunInit

\* The event loop of run: poll, draw, and one event per iteration.
NextApp ==
    \/ MainPoll /\ UNCHANGED sideVars
    \/ Draw /\ UNCHANGED sideVars
    \/ Resize /\ UNCHANGED sideVars
    \/ SearchEsc /\ UNCHANGED sideVars
    \/ SearchEnter /\ UNCHANGED sideVars
    \/ SearchBackspace /\ UNCHANGED sideVars
    \/ SearchChar /\ UNCHANGED sideVars
    \/ CommandEsc /\ UNCHANGED sideVars
    \/ CommandEnter /\ UNCHANGED sideVars
    \/ KeyQuit /\ UNCHANGED sideVars
    \/ KeyLeft /\ UNCHANGED sideVars
    \/ KeyDown /\ UNCHANGED sideVars
    \/ KeyUp /\ UNCHANGED sideVars
    \/ KeyRight /\ UNCHANGED sideVars
    \/ KeySlash /\ UNCHANGED sideVars
    \/ KeyColon /\ UNCHANGED sideVars
    \/ KeySpace /\ UNCHANGED sideVars
    \/ KeyQuestion /\ UNCHANGED sideVars
    \/ KeyEsc /\ UNCHANGED sideVars
    \/ KeyResetDir /\ UNCHANGED sideVars
    \/ KeyEnter /\ UNCHANGED sideVars
    \/ KeyOther /\ UNCHANGED sideVars

SpecApp == InitApp /\ [][NextApp]_vars

\* A key handler that runs with its name and the selection before it noted
\* in trail, which keeps the last two.
Tracked(key, action) ==
    /\ action
    /\ trail' = LET t == Append(trail, [key |-> key, from |-> selected])
                IN  SubSeq(t, Len(t) - min(Len(t), 2) + 1, Len(t))
    /\ UNCHANGED worker

\* The last key handler of trail, and the one before it.
LastKey == trail[Len(trail)]
KeyBefore == trail[Len(trail) - 1]

\* The search bar over a catalog of 20 items: the query is typed, edited,
\* cancelled and confirmed, and nothing else moves the selection.
InitSearch ==
    /\ EncoderNew /\ HistInit
    /\ AppAt(ManyDirs[Len(ManyDirs)])
    /\ RunEntered({<<64, 20>>})

NextSearch ==
    \/ Tracked("start_search", KeySlash)
    \/ Tracked("search_input", SearchChar)
    \/ Tracked("search_backspace", SearchBackspace)
    \/ Tracked("cancel_search", SearchEsc)
    \/ Tracked("confirm_search", SearchEnter)

SpecSearch == InitSearch /\ [][NextSearch]_vars

\* ImageEncoder driven as in SpecEncoder, with a worker whose encode may
\* panic.  trail is not used; worker.failed is marked by clear_cache like
\* every job sent before it.
NextFail ==
    \/ RequestEncode /\ UNCHANGED <<appVars, runVars, sideVars>>
    \/ PollRecv /\ UNCHANGED <<appVars, runVars, sideVars>>
    \/ PollReturn /\ UNCHANGED <<appVars, runVars, sideVars>>
    \/ /\ clear_cache
       /\ worker' = [worker EXCEPT !.failed = MarkStale(@)]
       /\ UNCHANGED <<appVars, runVars, trail>>
    \/ WorkerRecv /\ UNCHANGED <<appVars, runVars, sideVars>>
    \/ WorkerSend /\ UNCHANGED <<appVars, runVars, sideVars>>
    \/ WorkerPanic /\ UNCHANGED <<appVars, runVars, trail>>

SpecFail == InitEncoder /\ [][NextFail]_vars

\* The ImageEncoder is dropped, with the App that owns it, when run returns
\* (main.rs:152): tx is dropped, which closes the request channel with the
\* requests sent before still in it, and so are rx, with the results not yet
\* received, and the two maps.  _handle is dropped without a join, so the
\* worker thread runs on detached.
EncoderDrop ==
    /\ rpc = "idle"
    /\ rpc' = "dropped"
    /\ cache' = EmptyMap
    /\ pending' = EmptyMap
    /\ resQ' = <<>>
    /\ UNCHANGED <<reqQ, wjob, histVars>>

\* req_rx.recv() returns Err (encoder.rs:50): every sender is dropped and no
\* request is left in the channel.
RecvDisconnected == rpc = "dropped" /\ reqQ = <<>>

\* `while let Ok(request) = req_rx.recv()` ends and the closure returns.
WorkerExit ==
    /\ worker.state = "running"
    /\ wjob = None
    /\ RecvDisconnected
    /\ worker' = [state |-> "exited", failed |-> None]
    /\ UNCHANGED <<encVars, histVars>>

\* ImageEncoder from construction to drop, with a worker whose encode may
\* panic.  The owner calls request_encode and poll_results while it holds the
\* encoder; the worker runs until its loop ends.
NextDrop ==
    \/ RequestEncode /\ UNCHANGED <<appVars, runVars, sideVars>>
    \/ PollRecv /\ rpc # "dropped" /\ UNCHANGED <<appVars, runVars, sideVars>>
    \/ PollReturn /\ rpc # "dropped" /\ UNCHANGED <<appVars, runVars, sideVars>>
    \/ EncoderDrop /\ UNCHANGED <<appVars, runVars, sideVars>>
    \/ WorkerRecv /\ UNCHANGED <<appVars, runVars, sideVars>>
    \/ WorkerSend /\ UNCHANGED <<appVars, runVars, sideVars>>
    \/ WorkerPanic /\ UNCHANGED <<appVars, runVars, trail>>
    \/ WorkerExit /\ UNCHANGED <<appVars, runVars, trail>>

SpecDrop == InitEncoder /\ [][NextDrop]_vars

\* ImageEncoder without clear_cache and without a failing encode, under fair
\* scheduling: the worker thread is not starved, so it takes a queued request
\* and sends the result of the job it holds; run calls poll_results in every
\* iteration of its loop, at most 50 ms apart whether or not an event arrives
\* (main.rs:70, 87), so a queued result is received.  Nothing is assumed
\* about request_encode, which only input makes its caller call.
LiveRequest == RequestEncode /\ UNCHANGED <<appVars, runVars, sideVars>>
LivePollRecv == PollRecv /\ UNCHANGED <<appVars, runVars, sideVars>>
LivePollReturn == PollReturn /\ UNCHANGED <<appVars, runVars, sideVars>>
LiveWorkerRecv == WorkerRecv /\ UNCHANGED <<appVars, runVars, sideVars>>
LiveWorkerSend == WorkerSend /\ UNCHANGED <<appVars, runVars, sideVars>>

NextLive ==
    \/ LiveRequest
    \/ LivePollRecv
    \/ LivePollReturn
    \/ LiveWorkerRecv
    \/ LiveWorkerSend

SpecLive ==
    /\ InitEncoder
    /\ [][NextLive]_vars
    /\ WF_vars(LiveWorkerRecv)
    /\ WF_vars(LiveWorkerSend)
    /\ WF_vars(LivePollRecv)

\* The encoder in use while the view directory changes: some caller requests
\* encodes and polls, the worker runs, and the keys that lead to
\* reload_wallpapers are pressed, with a query left in the search bar and
\* any item selected at the start.
InitReload == EncoderNew /\ HistInit /\ AppNew /\ RunEntered({<<64, 20>>})

\* The caller of this specification asks for item 0 at one cell size.
RequestFirst == request_encode(0, "imgA", 30, 15)

NextReload ==
    \/ RequestFirst /\ UNCHANGED <<appVars, runVars, sideVars>>
    \/ PollRecv /\ UNCHANGED <<appVars, runVars, sideVars>>
    \/ PollReturn /\ UNCHANGED <<appVars, runVars, sideVars>>
    \/ WorkerRecv /\ UNCHANGED <<appVars, runVars, sideVars>>
    \/ WorkerSend /\ UNCHANGED <<appVars, runVars, sideVars>>
    \/ KeySlash /\ UNCHANGED sideVars
    \/ SearchChar /\ UNCHANGED sideVars
    \/ SearchEnter /\ UNCHANGED sideVars
    \/ KeyColon /\ UNCHANGED sideVars
    \/ Tracked("confirm_command", CommandEnter)
    \/ Tracked("reset_view_dir", KeyResetDir)

SpecReload == InitReload /\ [][NextReload]_vars

\* poll_results run to its return with no worker step in between: the maps
\* after the loop of encoder.rs:100-104 has received every result of q.
RECURSIVE PollAll(_, _, _)
PollAll(c, p, q) ==
    IF q = <<>> THEN [cache |-> c, pending |-> p]
    ELSE LET key == KeyOf(Head(q))
         IN  PollAll(insert(c, key, Head(q).protocol), remove(p, key), Tail(q))

\* let before = cache_len(); poll_results(); cache_len() > before
\* (main.rs:70-74).
HadNewImages(before, after) == len(after) > len(before)

\* The head of an iteration of the loop of run (main.rs:70-77): poll_results
\* drains the result queue and needs_redraw is set when had_new_images.
LoopPoll ==
    /\ outcome = "running"
    /\ rpc = "idle"
    /\ LET polled == PollAll(cache, pending, resQ)
       IN  /\ cache' = polled.cache
           /\ pending' = polled.pending
           /\ needs_redraw' = (needs_redraw \/ HadNewImages(cache, polled.cache))
    /\ resQ' = <<>>
    /\ lastOp' = OpRecord("poll_results", None,
                          {KeyOf(resQ[i]) : i \in 1..Len(resQ)}, FALSE, 0)
    /\ UNCHANGED <<reqQ, wjob, rpc, requested, lastDone, pollSnap, pollLeft,
                   appVars, term, outcome, lastFrame>>

\* The loop of run over an encoder that is given work: the owning thread
\* calls request_encode for the first item at one cell size, polls at the head of every iteration, draws when
\* needs_redraw holds and handles 'H', which reloads the catalog and clears
\* the encoder; the worker runs beside it.
RequestItemZero ==
    \E image \in Images : request_encode(0, image, 30, 15)

NextLoop ==
    \/ RequestItemZero /\ UNCHANGED <<appVars, runVars, sideVars>>
    \/ LoopPoll /\ UNCHANGED sideVars
    \/ Draw /\ UNCHANGED sideVars
    \/ KeyResetDir /\ UNCHANGED sideVars
    \/ WorkerRecv /\ UNCHANGED <<appVars, runVars, sideVars>>
    \/ WorkerSend /\ UNCHANGED <<appVars, runVars, sideVars>>

SpecLoop == InitEncoder /\ [][NextLoop]_vars

\* Terminal widths whose grid has 1, 2, .. 8 columns.
NavTerms == {<<30 * c + 3, 20>> : c \in MIN_COLUMNS..MAX_COLUMNS}

\* The grid over a catalog of 0 to 20 items, any of them selected, in a
\* terminal of 1 to 8 columns: frames are drawn and the movement keys pressed.
\* A drawn frame ends a run of consecutive key handlers.
InitNav ==
    /\ EncoderNew /\ HistInit
    /\ \E n \in 0..Len(ManyDirs) :
           AppAt(IF n = 0 THEN "/missing" ELSE ManyDirs[n])
    /\ RunEntered(NavTerms)

NextNav ==
    \/ Draw /\ trail' = <<>> /\ UNCHANGED worker
    \/ Tracked("move_left", KeyLeft)
    \/ Tracked("move_down", KeyDown)
    \/ Tracked("move_up", KeyUp)
    \/ Tracked("move_right", KeyRight)

SpecNav == InitNav /\ [][NextNav]_vars

\* Terminals of every width up to MaxTermWidth, of four heights: none, no
\* room for a row, room for some rows, and an inner height of 40.
GridTerms == (0..MaxTermWidth) \X {0, 4, 20, 43}

\* One frame of the grid, for every terminal of GridTerms, every catalog of
\* 0 to 20 items and every selection.
InitGrid ==
    /\ EncoderNew /\ HistInit
    /\ \E n \in 0..Len(ManyDirs) :
           AppAt(IF n = 0 THEN "/missing" ELSE ManyDirs[n])
    /\ RunEntered(GridTerms)

NextGrid ==
    \/ Draw /\ UNCHANGED sideVars

SpecGrid == InitGrid /\ [][NextGrid]_vars

\* ================================================================== claims
\* ------------------------------------------------------------------ encoder

\* The jobs for key k in the pipeline: queued requests, the worker's job and
\* queued results, as one sequence.
JobsInFlight(k) ==
    SelectSeq(reqQ \o wjob \o resQ, LAMBDA m : KeyOf(m) = k)

\* Those sent since the last clear_cache.
FreshJobsInFlight(k) ==
    SelectSeq(JobsInFlight(k), LAMBDA m : ~m.stale)

RequestsQueued(q, k) == Len(SelectSeq(q, LAMBDA m : KeyOf(m) = k))

\* C1: while the job a request_encode sent for a key is in flight (its result
\* not drained, no clear_cache since), no step puts another EncodeRequest for
\* that key on the request queue: the repeated calls send nothing.
C1_DuplicateRequestSendsNothing ==
    [][\A k \in Keys :
          Len(FreshJobsInFlight(k)) > 0
              => RequestsQueued(reqQ', k) <= RequestsQueued(reqQ, k)]_vars

\* A second request_encode for a key returned without sending while the
\* first call's job was still in flight.
C1_Witness ==
    /\ lastOp.op = "request_encode"
    /\ ~lastOp.sent
    /\ Len(FreshJobsInFlight(unwrap(lastOp.key))) = 1
    /\ Len(JobsInFlight(unwrap(lastOp.key))) = 1

\* C2 as stated: every key has at most one encode in flight, clear_cache
\* included among the operations.
C2_AtMostOneInFlight ==
    \A k \in Keys : Len(JobsInFlight(k)) <= 1

\* C2 amended: every key has at most one encode in flight among the jobs
\* sent since the last clear_cache.
C2_AtMostOneFreshInFlight ==
    \A k \in Keys : Len(FreshJobsInFlight(k)) <= 1

\* A key with two encodes in flight: one sent before a clear_cache, one after.
C2_Witness ==
    \E k \in Keys :
        /\ Len(JobsInFlight(k)) = 2
        /\ Len(FreshJobsInFlight(k)) = 1

\* C3: a key not requested since the last clear_cache is Absent: get_cached
\* returns None for it, whatever results poll_results has received since.
C3_StaleResultIgnored ==
    \A k \in Keys :
        k \notin requested => get_cached(k.index, k.width, k.height) = None

\* C4: no key is in the pending map and in the cache map at the same time.
C4_PendingXorPresent ==
    \A k \in Keys : ~(contains_key(cache, k) /\ contains_key(pending, k))

\* poll_results has moved a key from Pending to Present while another key is
\* still Pending.
C4_Witness ==
    /\ lastOp.op = "poll_results"
    /\ \E k \in lastOp.keys : contains_key(cache, k)
    /\ \E k \in Keys : contains_key(pending, k)

\* C5: from the return of clear_cache until the owning thread's next call
\* (rpc leaves "idle" when the next poll_results receives a result),
\* get_cached is None for every key, cache_len is 0 and no key is Pending.
C5_ClearLeavesNothing ==
    (lastOp.op = "clear_cache" /\ rpc = "idle") =>
        /\ cache_len = 0
        /\ \A k \in Keys : get_cached(k.index, k.width, k.height) = None
        /\ \A k \in Keys : ~contains_key(pending, k)

\* clear_cache ran with a key Present and a job in the pipeline.
C5_Witness ==
    /\ lastOp.op = "clear_cache"
    /\ rpc = "idle"
    /\ lastOp.keys # {}
    /\ InFlightCount > 0

\* C6: the protocol stored under a Present key is the one of the job the
\* worker completed last for that key.
C6_PresentIsLastCompleted ==
    \A k \in Keys : contains_key(cache, k) => cache[k] = lastDone[k]

\* C7: a try_recv of poll_results can always be taken, whatever the worker
\* holds and whatever is queued; and once poll_results has returned, it has
\* received every result that was queued when it was called, and each of
\* their keys is Present and not Pending.
C7_PollNeverWaitsAndDrains ==
    /\ ENABLED PollRecv \/ ENABLED PollReturn
    /\ (lastOp.op = "poll_results" /\ rpc = "idle") =>
          /\ lastOp.left = 0
          /\ \A k \in lastOp.keys :
                contains_key(cache, k) /\ ~contains_key(pending, k)

\* poll_results returned, having drained a result, while the worker held a
\* job whose result it had not sent yet.
C7_Witness ==
    /\ lastOp.op = "poll_results"
    /\ rpc = "idle"
    /\ lastOp.keys # {}
    /\ wjob # None
    /\ resQ = <<>>

\* ------------------------------------------------------------------ render

\* C8: a frame asks the encoder for every cell whose image it shows and
\* builds no protocol itself: after the frame each such item has a key that
\* is Present or Pending in the encoder, and image_states is as it was.
C8_RenderAsksEncoder ==
    [][Draw =>
          /\ \A i \in lastFrame' :
                \E k \in Keys :
                    /\ k.index = i
                    /\ contains_key(cache', k) \/ contains_key(pending', k)
          /\ image_states' = image_states]_vars

\* ------------------------------------------------------------------ selection and filter

\* C9 as stated: the selection index is in [0, filtered-view length).
C9_SelectionInRange ==
    selected \in 0..(Len(filtered_indices) - 1)

\* C9 amended: the selection index is in [0, filtered-view length) when the
\* filtered view is not empty, and is 0 when it is empty.
C9_SelectionInRangeOrZero ==
    IF Len(filtered_indices) = 0
    THEN selected = 0
    ELSE selected \in 0..(Len(filtered_indices) - 1)

\* A search edit emptied the filtered view of a catalog that has items.
C9_Witness ==
    /\ Len(filtered_indices) = 0
    /\ search_query # <<>>
    /\ Len(wallpapers) > 0
    /\ selected = 0

\* Two characters are the same letter, whatever their case.
SameLetter(c, d) ==
    \/ c = d
    \/ {c, d} \in {{"A", "a"}, {"B", "b"}}

\* The query occurs in the name as a contiguous run of letters, case ignored.
OccursIgnoringCase(query, name) ==
    \E off \in 0..(Len(name) - Len(query)) :
        \A j \in 1..Len(query) : SameLetter(name[off + j], query[j])

\* C10: the filtered view is strictly increasing, holds only indices below
\* the catalog length, and holds a catalog index exactly when the item's
\* name contains the search query, case ignored (every index for the empty
\* query).
C10_FilteredViewExact ==
    /\ \A i, j \in 1..Len(filtered_indices) :
          i < j => filtered_indices[i] < filtered_indices[j]
    /\ \A i \in 1..Len(filtered_indices) :
          filtered_indices[i] \in 0..(Len(wallpapers) - 1)
    /\ \A idx \in 0..(Len(wallpapers) - 1) :
          (\E i \in 1..Len(filtered_indices) : filtered_indices[i] = idx)
              <=> OccursIgnoringCase(search_query, wallpapers[idx + 1].name)

\* A reload under the query "B": of the new catalog <<"a", "aB">> only
\* index 1 is in view.
C10_Witness ==
    /\ search_query = <<"B">>
    /\ current_view_dir = Some("/pics")
    /\ Len(wallpapers) = 2
    /\ filtered_indices = <<1>>

\* C11: every change of the search query (a character typed, a backspace,
\* the search cancelled) sets the selection to 0 when it is at or past the
\* length of the new filtered view and leaves it alone otherwise.
C11_QueryEditResetsOrKeeps ==
    [][(SearchChar \/ SearchBackspace \/ SearchEsc) =>
          selected' = IF selected >= Len(filtered_indices') THEN 0 ELSE selected]_vars

\* 20 items with item 12 selected, narrowed by a typed character to 3
\* matches: the selection is 0.
C11_Witness ==
    /\ trail # <<>>
    /\ LastKey.key = "search_input"
    /\ LastKey.from = 12
    /\ Len(wallpapers) = 20
    /\ Len(filtered_indices) = 3
    /\ selected = 0

\* A query edit that keeps the selection because it is still in range.
C11_WitnessKept ==
    /\ trail # <<>>
    /\ LastKey.key = "search_backspace"
    /\ LastKey.from = 12
    /\ Len(filtered_indices) > 12
    /\ selected = 12

\* move_down ran and move_up ran right after it, with no frame drawn between
\* them, so both read the same columns.
DownThenUp ==
    /\ Len(trail) = 2
    /\ KeyBefore.key = "move_down"
    /\ LastKey.key = "move_up"

\* C12 as stated: after move_down then move_up from index i the selection is
\* i again, unless i + columns is past the end of the view and the final row
\* is a partial one.
C12_DownThenUpReturns ==
    DownThenUp =>
        LET i == KeyBefore.from
            n == Len(filtered_indices)
        IN  \/ selected = i
            \/ i + columns >= n /\ n % columns # 0

\* C12: after move_down then move_up from index i the selection is i again,
\* unless move_down had nowhere to go (i + columns is past the end of the
\* view, which holds for every index of the last row, partial or full); then
\* it is i - columns, or i in the first row.
C12_DownThenUpReturnsUnlessBlocked ==
    DownThenUp =>
        LET i == KeyBefore.from
            n == Len(filtered_indices)
        IN  IF i + columns < n THEN selected = i
            ELSE selected = IF i >= columns THEN i - columns ELSE i

\* move_down went one row down and move_up came back, in a grid of 8 columns.
C12_Witness ==
    /\ DownThenUp
    /\ columns = 8
    /\ LastKey.from = KeyBefore.from + columns
    /\ selected = KeyBefore.from
    /\ selected = 3

\* C13: whenever move_up or move_down runs in the event loop, App.columns is
\* the column count render_grid computes for the terminal as it is then.
C13_MoveReadsCurrentColumns ==
    [][(KeyUp \/ KeyDown) =>
          columns = GridColumns(GridWidth(BlockInner(GridArea(term, mode))))]_vars

\* The grid area of the current frame, and whether the frame on screen was
\* laid out for the terminal and the view as they are now (in SpecGrid only
\* Draw clears needs_redraw).
FrameInner == BlockInner(GridArea(term, mode))
FrameIsCurrent == ~needs_redraw /\ Len(filtered_indices) > 0

\* C14: for a grid width of 30 or more, columns is in 1..8 and is the largest
\* count up to 8 whose cells, floor(grid_width / columns) wide, are at least
\* 30 wide; for a grid width below 30, columns is 1.
C14_ColumnsLargestThatFit ==
    FrameIsCurrent =>
        LET grid_width == GridWidth(FrameInner)
        IN  IF grid_width >= 30
            THEN /\ columns \in 1..8
                 /\ grid_width \div columns >= 30
                 /\ \A c \in 1..8 : grid_width \div c >= 30 => c <= columns
            ELSE columns = 1

\* A frame for a grid wide enough for 9 cells, laid out in 8 columns.
C14_Witness ==
    /\ FrameIsCurrent
    /\ GridWidth(FrameInner) = 275
    /\ columns = 8

\* C15: cell_width is floor(grid_width / columns), cell_height is
\* floor(cell_width / 2) and total_rows is ceil(item_count / columns); a grid
\* 120 wide and 40 high with 17 items has 4 columns, cells 30 by 15 and 5 rows.
C15_CellSizeAndRows ==
    FrameIsCurrent =>
        LET grid_width == GridWidth(FrameInner)
            n == Len(filtered_indices)
            cell_width == CellWidth(grid_width)
            cell_height == CellHeight(grid_width)
            total_rows == TotalRows(n, columns)
        IN  /\ cell_width * columns <= grid_width
            /\ grid_width < (cell_width + 1) * columns
            /\ 2 * cell_height <= cell_width
            /\ cell_width < 2 * cell_height + 2
            /\ (total_rows - 1) * columns < n
            /\ n <= total_rows * columns
            /\ (grid_width = 120 /\ FrameInner.height = 40 /\ n = 17) =>
                   /\ columns = 4
                   /\ cell_width = 30
                   /\ cell_height = 15
                   /\ total_rows = 5

\* The frame of the example: a grid 120 wide and 40 high over 17 items.
C15_Witness ==
    /\ FrameIsCurrent
    /\ GridWidth(FrameInner) = 120
    /\ FrameInner.height = 40
    /\ Len(filtered_indices) = 17
    /\ lastFrame # {}

\* A step in which reload_wallpapers ran and returned Ok: Enter on a "cd"
\* command, or 'H'.
ReloadSucceeds ==
    \/ \E cmd \in Commands : cmd.verb = "cd" /\ CommandEnterWith(cmd, TRUE)
    \/ KeyResetDir /\ outcome' = "running"

\* The catalog is what the view directory holds, in name order, with no
\* thumbnail loaded.
CatalogIsOf(dir) ==
    LET files == FileSystem(dir).files IN
    /\ Len(wallpapers) = Cardinality(files)
    /\ {wallpapers[i].name : i \in 1..Len(wallpapers)} = {f.stem : f \in files}
    /\ \A i \in 1..Len(wallpapers) :
           /\ wallpapers[i].path = Path(dir, wallpapers[i].name)
           /\ wallpapers[i].thumbnail = None
           /\ \A j \in (i + 1)..Len(wallpapers) :
                  StrLess(wallpapers[i].name, wallpapers[j].name)

\* The filtered view holds, in order, the indices of the catalog whose name
\* contains the query, case ignored.
ViewIsOfCatalog ==
    /\ \A i \in 1..Len(filtered_indices),  j \in 1..Len(filtered_indices) :
           i < j => filtered_indices[i] < filtered_indices[j]
    /\ {filtered_indices[i] : i \in 1..Len(filtered_indices)} =
           {i \in 0..(Len(wallpapers) - 1) :
               OccursIgnoringCase(search_query, wallpapers[i + 1].name)}

Reloaded ==
    /\ CatalogIsOf(IF is_some(current_view_dir) THEN unwrap(current_view_dir)
                   ELSE DefaultDir)
    /\ \A k \in Keys : ~contains_key(cache, k) /\ ~contains_key(pending, k)
    /\ selected = 0
    /\ ViewIsOfCatalog

\* C16: after a successful reload_wallpapers (Enter on "cd" or "cd <path>",
\* or 'H') the catalog is the list discovered in the view directory, no key
\* of the encoder is Present or Pending, the selection is 0 and the filtered
\* view is the query's matches in the new catalog.
C16_ReloadInvalidates == [][ReloadSucceeds => Reloaded']_vars

\* "cd /pics" confirmed while a key was Present, item 2 was selected and a
\* query was in the search bar that one of the two new items matches.
C16_Witness ==
    /\ trail # <<>>
    /\ LastKey.key = "confirm_command"
    /\ LastKey.from = 2
    /\ lastOp.op = "clear_cache"
    /\ lastOp.keys # {}
    /\ current_view_dir = Some("/pics")
    /\ search_query # <<>>
    /\ Len(filtered_indices) = 1
    /\ Reloaded

\* The worker panicked on a job that was sent after the last clear_cache.
FailedFresh == worker.state = "panicked" /\ ~unwrap(worker.failed).stale

\* C17: once the worker has failed on the job for key K, and until a
\* clear_cache, K is Pending and not Present (so request_encode for K
\* returns at encoder.rs:81) and no result of a job sent for K since the last
\* clear_cache is queued.
C17_FailedKeyStaysPending ==
    FailedFresh =>
        LET K == KeyOf(unwrap(worker.failed))
        IN  /\ contains_key(pending, K)
            /\ ~contains_key(cache, K)
            /\ FreshJobsInFlight(K) = <<>>

\* C18: a failed job leaves the worker at work: every other key that is
\* Pending has a job that is queued, being encoded, or has its result queued.
C18_JobsBesideFailureInFlight ==
    \A k \in Keys :
        /\ contains_key(pending, k)
        /\ ~(FailedFresh /\ k = KeyOf(unwrap(worker.failed)))
        => FreshJobsInFlight(k) # <<>>

\* C19: selected_wallpaper is None exactly when the filtered view is empty;
\* otherwise the selection is inside the view, the view's entry is inside
\* the catalog, and selected_wallpaper is the catalog item at that entry.
C19_SelectedWallpaperIsViewEntry ==
    /\ selected_wallpaper = None <=> Len(filtered_indices) = 0
    /\ Len(filtered_indices) > 0 =>
           /\ selected < Len(filtered_indices)
           /\ filtered_indices[selected + 1] < Len(wallpapers)
           /\ selected_wallpaper = Some(wallpapers[filtered_indices[selected + 1] + 1])

\* After a reload under a query the view is not the whole catalog: position
\* 0 of the view is item 1 of /pics, and that item is returned.
C19_Witness ==
    /\ current_view_dir = Some("/pics")
    /\ search_query # <<>>
    /\ filtered_indices = <<1>>
    /\ selected = 0
    /\ selected_wallpaper = Some(wallpapers[2])

\* An empty view, for which None is returned.
C19_WitnessNone ==
    /\ Len(wallpapers) > 0
    /\ filtered_indices = <<>>
    /\ selected_wallpaper = None

\* C20: with the worker and the loop scheduled fairly, no failing encode and
\* no clear_cache, every key that is Pending is Present at some later time,
\* whether or not any further input arrives.
C20_PendingBecomesPresent ==
    \A k \in Keys : contains_key(pending, k) ~> contains_key(cache, k)

\* A poll_results call has returned that received the result of a key, with
\* another key still Pending behind it.
C20_Witness ==
    /\ lastOp.op = "poll_results"
    /\ rpc = "idle"
    /\ \E k \in lastOp.keys :
           /\ contains_key(cache, k)
           /\ ~contains_key(pending, k)
           /\ \E other \in Keys \ {k} : contains_key(pending, other)

\* C21: a key that is Present stays Present, whatever its size and whatever
\* is stored for the other sizes of its item, in every step of request_encode,
\* poll_results and the worker; the one step in which a Present key stops
\* being Present is clear_cache, after which no key is Present.
C21_PresentUntilClear ==
    [][(\E k \in Keys : contains_key(cache, k) /\ ~contains_key(cache', k)) =>
          /\ clear_cache
          /\ \A k \in Keys : ~contains_key(cache', k)]_vars

\* Item 0 is Present at both of its sizes, the second stored by the
\* poll_results call that has just returned.
C21_Witness ==
    /\ lastOp.op = "poll_results"
    /\ rpc = "idle"
    /\ lastOp.keys # {}
    /\ contains_key(cache, CacheKey(0, 30, 15))
    /\ contains_key(cache, CacheKey(0, 60, 30))
    /\ ~(lastOp.keys = {CacheKey(0, 30, 15), CacheKey(0, 60, 30)})

\* The steps by which the key k moves along the pipeline: a request for k is
\* added to the request queue, the worker takes a job for k, a result for k is
\* added to the result queue, k becomes Present.
Enqueued(k) == RequestsQueued(reqQ', k) > RequestsQueued(reqQ, k)
Taken(k) == wjob = None /\ wjob' # None /\ KeyOf(unwrap(wjob')) = k
Pushed(k) == RequestsQueued(resQ', k) > RequestsQueued(resQ, k)
BecomesPresent(k) == ~contains_key(cache, k) /\ contains_key(cache', k)

\* C22: a key becomes Present only in a poll_results step that receives a
\* result for it; a result for it is pushed only by the worker finishing a
\* job for it; the worker takes a job for it only from the head of the
\* request queue; and a request for it is queued only by request_encode for
\* it.  So a Present key has a job the worker completed, and a key for which
\* no job was queued is never Present.
C22_PresentAfterRequestEncodeDrain ==
    /\ [](\A k \in Keys : contains_key(cache, k) => is_some(lastDone[k]))
    /\ [][\A k \in Keys :
            /\ BecomesPresent(k) =>
                   PollRecv /\ resQ # <<>> /\ KeyOf(Head(resQ)) = k
            /\ Pushed(k) =>
                   WorkerSend /\ wjob # None /\ KeyOf(unwrap(wjob)) = k
            /\ Taken(k) =>
                   WorkerRecv /\ reqQ # <<>> /\ KeyOf(Head(reqQ)) = k
            /\ Enqueued(k) =>
                   \E image \in Images :
                       request_encode(k.index, image, k.width, k.height)]_vars

\* A key is Present by the poll_results call that has just returned, after
\* the worker completed its job, while another key has had no job at all.
C22_Witness ==
    /\ lastOp.op = "poll_results"
    /\ rpc = "idle"
    /\ \E k \in lastOp.keys :
           /\ contains_key(cache, k)
           /\ is_some(lastDone[k])
           /\ k \in requested
    /\ \E other \in Keys :
           /\ other \notin requested
           /\ ~is_some(lastDone[other])
           /\ ~contains_key(cache, other)
           /\ JobsInFlight(other) = <<>>

\* C23: a worker step (taking a request, or encoding it and pushing the
\* result) leaves the cache map, the pending map and the caller's position
\* as they are; what it changes is the two queues and the job it holds.
C23_WorkerLeavesMapsAlone ==
    [][(WorkerRecv \/ WorkerSend) =>
          /\ UNCHANGED <<cache, pending, rpc>>
          /\ <<reqQ, wjob, resQ>>' # <<reqQ, wjob, resQ>>]_vars

\* The worker holds a job while one key is Present and another is Pending.
C23_Witness ==
    /\ wjob # None
    /\ \E k \in Keys : contains_key(cache, k)
    /\ \E k \in Keys : contains_key(pending, k)
    /\ resQ # <<>>

\* The loop of the worker ends by itself only on a closed and empty request
\* channel: a worker that has returned from its closure has no sender left,
\* no request left in the channel and no job in hand, and WorkerExit is the
\* only step that makes it return.
LoopEndsOnlyWhenClosed ==
    /\ [](worker.state = "exited" =>
             rpc = "dropped" /\ reqQ = <<>> /\ wjob = None)
    /\ [][(worker.state # "exited" /\ worker'.state = "exited") =>
             WorkerExit /\ rpc = "dropped" /\ reqQ = <<>>]_vars

\* C24: the worker thread has ended only if the sender of the request channel
\* is dropped, nothing is left in the channel and no job is in hand; while the
\* ImageEncoder exists the worker is running.
C24_WorkerEndsOnlyWhenClosed ==
    worker.state # "running" =>
        rpc = "dropped" /\ reqQ = <<>> /\ wjob = None

\* C25: after move_up from index i the selection is i - columns when
\* i >= columns and i otherwise; after move_down from i it is i + columns when
\* i + columns is below the length of the filtered view and i otherwise.  It
\* changes in exactly those cases, never below 0, and from an index of the
\* view never to one outside it.
C25_UpDownByColumns ==
    trail # <<>> =>
        LET i == LastKey.from
            n == Len(filtered_indices)
        IN  /\ LastKey.key = "move_up" =>
                  /\ selected = IF i >= columns THEN i - columns ELSE i
                  /\ selected # i <=> i >= columns
            /\ LastKey.key = "move_down" =>
                  /\ selected = IF i + columns < n THEN i + columns ELSE i
                  /\ selected # i <=> i + columns < n
            /\ LastKey.key \in {"move_up", "move_down"} =>
                  /\ selected >= 0
                  /\ i < n => selected < n
                  /\ selected \in {i - columns, i, i + columns}

\* move_up had no row to go to, then move_down went one row down, to the last
\* index of the view.
C25_Witness ==
    /\ Len(trail) = 2
    /\ KeyBefore.key = "move_up"
    /\ KeyBefore.from < columns
    /\ LastKey.key = "move_down"
    /\ LastKey.from = KeyBefore.from
    /\ selected = LastKey.from + columns
    /\ selected = Len(filtered_indices) - 1
    /\ columns = 4

\* The indices reached from those of S by at most k presses of move_left and
\* move_right, in any order, in a view of n entries.
RECURSIVE ReachedLeftRight(_, _, _)
ReachedLeftRight(S, n, k) ==
    IF k = 0 THEN S
    ELSE ReachedLeftRight(S \cup {AfterMoveLeft(i) : i \in S}
                            \cup {AfterMoveRight(i, n) : i \in S}, n, k - 1)

\* C26: after move_left from index i the selection is i - 1 when i > 0 and i
\* otherwise; after move_right from i it is i + 1 when i + 1 is below the
\* length of the filtered view and i otherwise; it changes in exactly those
\* cases.  From the selected index of a view, presses of move_left and
\* move_right reach every index of the view and no other.
C26_LeftRightByOne ==
    LET n == Len(filtered_indices) IN
    /\ trail # <<>> =>
          LET i == LastKey.from
          IN  /\ LastKey.key = "move_left" =>
                    /\ selected = IF i > 0 THEN i - 1 ELSE i
                    /\ selected # i <=> i > 0
              /\ LastKey.key = "move_right" =>
                    /\ selected = IF i + 1 < n THEN i + 1 ELSE i
                    /\ selected # i <=> i + 1 < n
    /\ selected < n => ReachedLeftRight({selected}, n, n) = 0..(n - 1)

\* move_right stopped at the last index of a view of 20, and move_left went
\* one back.
C26_Witness ==
    /\ Len(trail) = 2
    /\ Len(filtered_indices) = 20
    /\ KeyBefore.key = "move_right"
    /\ KeyBefore.from = 19
    /\ LastKey.key = "move_left"
    /\ LastKey.from = 19
    /\ selected = 18

\* The rows and the scroll offset render_grid computes for the current frame
\* (ui.rs:85-101); read only where cell_height > 0.
FrameCellHeight == CellHeight(GridWidth(FrameInner))
FrameTotalRows == TotalRows(Len(filtered_indices), columns)
FrameSelectedRow == selected \div columns
FrameVisibleFullRows == VisibleFullRows(FrameInner, FrameCellHeight)
FrameScrollOffset ==
    ScrollOffset(FrameSelectedRow, FrameTotalRows, FrameVisibleFullRows)

\* A frame whose grid was laid out past the cell_height check, with room for
\* at least one full row.
FrameHasFullRow ==
    /\ FrameIsCurrent
    /\ FrameCellHeight > 0
    /\ FrameVisibleFullRows >= 1

\* C27: in a frame with at least one full visible row, the selected row is
\* at or below the scroll offset and above scroll offset + visible_full_rows;
\* the offset is 0 when the selected row is above visible_full_rows / 2,
\* total_rows - visible_full_rows (not below 0) when the selected row is at
\* or past total_rows - visible_full_rows / 2, and selected row -
\* visible_full_rows / 2 otherwise; and it is 0 when total_rows is at most
\* visible_full_rows.
C27_ScrollKeepsSelectedRowVisible ==
    FrameHasFullRow =>
        LET half == FrameVisibleFullRows \div 2
            past == FrameTotalRows - FrameVisibleFullRows
        IN  /\ FrameScrollOffset <= FrameSelectedRow
            /\ FrameSelectedRow < FrameScrollOffset + FrameVisibleFullRows
            /\ FrameScrollOffset =
                   IF FrameSelectedRow < half THEN 0
                   ELSE IF FrameSelectedRow >= FrameTotalRows - half
                        THEN (IF past > 0 THEN past ELSE 0)
                        ELSE FrameSelectedRow - half
            /\ FrameTotalRows <= FrameVisibleFullRows => FrameScrollOffset = 0

\* A frame of 20 rows of one cell with 5 of them fully visible, scrolled so
\* that the selected row is the middle one, short of the end.
C27_Witness ==
    /\ FrameHasFullRow
    /\ columns = 1
    /\ FrameTotalRows = 20
    /\ FrameVisibleFullRows = 5
    /\ FrameSelectedRow = 9
    /\ FrameScrollOffset = 7

\* The cells render_grid hands to render_wallpaper_cell in the current frame.
FrameDrawn == FrameCells(FrameInner)

\* The rows of the grid that are visible in the current frame, the trailing
\* partial one included, and the height left for the cells of a row.
FrameVisibleRows ==
    FrameVisibleFullRows
        + (IF FrameInner.height > FrameVisibleFullRows * FrameCellHeight
           THEN 1 ELSE 0)
FrameClippedHeight(row) ==
    LET below == FrameInner.height - (row - FrameScrollOffset) * FrameCellHeight
    IN  IF below < FrameCellHeight THEN below ELSE FrameCellHeight

\* C28: the positions drawn in a frame are exactly the row * columns + col
\* with scroll_offset <= row < scroll_offset + visible_rows, col < columns and
\* a position below the item count, except the rows whose clipped height is
\* below 3; the cell of such a position has its corner col * cell_width right
\* of and (row - scroll_offset) * cell_height below the grid origin; no two
\* cells have the same position and none has a position at or past the item
\* count.
C28_DrawnCellsAreVisiblePositions ==
    (FrameIsCurrent /\ FrameCellHeight > 0) =>
        LET n == Len(filtered_indices)
            cell_width == CellWidth(GridWidth(FrameInner))
            rows == FrameScrollOffset..(FrameScrollOffset + FrameVisibleRows - 1)
        IN  /\ {c.pos : c \in FrameDrawn} =
                   {row * columns + col : <<row, col>> \in
                       {rc \in rows \X (0..(columns - 1)) :
                           /\ rc[1] * columns + rc[2] < n
                           /\ FrameClippedHeight(rc[1]) >= 3}}
            /\ \A c \in FrameDrawn :
                   /\ c.area.x - FrameInner.x = (c.pos % columns) * cell_width
                   /\ c.area.y - FrameInner.y =
                          (c.pos \div columns - FrameScrollOffset) * FrameCellHeight
                   /\ c.pos \in 0..(n - 1)
            /\ \A c, d \in FrameDrawn : c.pos = d.pos => c = d

\* A scrolled frame of several columns that draws a clipped last row and
\* the last position of the view, in a last row that is not full.
C28_Witness ==
    /\ FrameIsCurrent
    /\ FrameCellHeight > 0
    /\ columns >= 2
    /\ FrameScrollOffset > 0
    /\ Len(filtered_indices) % columns # 0
    /\ \E c \in FrameDrawn :
           /\ c.pos = Len(filtered_indices) - 1
           /\ c.area.height + 1 < FrameCellHeight

\* C29: no frame makes render_grid panic, whatever the terminal size and
\* the item count; a frame of an empty view draws no cell, and a frame whose
\* cell_height is 0 draws nothing and leaves the thumbnails as they are.
C29_LayoutNeverFails ==
    /\ outcome # "panicked"
    /\ ~LayoutFails(FrameInner, Len(filtered_indices), selected)
    /\ (~needs_redraw /\ Len(filtered_indices) = 0) =>
           FrameDrawn = {} /\ lastFrame = {}
    /\ (~needs_redraw /\ Len(filtered_indices) > 0 /\ FrameCellHeight = 0) =>
           FrameDrawn = {} /\ lastFrame = {}

\* A frame was drawn in a terminal of no width and no height over a view of
\* 20 items: nothing was drawn and columns is 1.
C29_Witness ==
    /\ ~needs_redraw
    /\ term = <<0, 0>>
    /\ Len(filtered_indices) = 20
    /\ FrameCellHeight = 0
    /\ columns = 1
    /\ lastFrame = {}

\* C30: a poll at the head of a loop iteration that changes the cache, by
\* storing a protocol under a new key or another protocol under a key that
\* has one, leaves needs_redraw set.
C30_CacheChangeSetsRedraw ==
    [][(LoopPoll /\ cache' # cache) => needs_redraw']_vars

\* What holds of it: a poll that stores a protocol under a key that had none
\* leaves needs_redraw set.
NewKeySetsRedraw ==
    [][(LoopPoll /\ \E k \in Keys : BecomesPresent(k)) => needs_redraw']_vars

\* A step in which reload_wallpapers ran and returned the Err of
\* discover_wallpapers: Enter on a "cd" command, or 'H'.
ReloadFails ==
    \/ \E cmd \in Commands : cmd.verb = "cd" /\ CommandEnterWith(cmd, FALSE)
    \/ KeyResetDir /\ outcome' = "err"

\* What holds of a failed reload: run returns the error, and the catalog,
\* the filtered view, the selection, the mode and the encoder are as before.
FailedReloadKeepsCatalog ==
    [][ReloadFails =>
          /\ outcome' = "err"
          /\ UNCHANGED <<wallpapers, filtered_indices, selected, mode, encVars>>]_vars

\* C31: when discovery fails in a reload, run returns the error and the
\* catalog, the filtered view, the selection, the cache and pending maps of
\* the encoder and the current view directory are what they were before the
\* command.
C31_FailedReloadLeavesApp ==
    [][ReloadFails =>
          /\ outcome' = "err"
          /\ UNCHANGED <<wallpapers, filtered_indices, selected, cache, pending,
                         current_view_dir>>]_vars

\* C32: in a frame of a non-empty view with the selection in range, at least
\* one full visible row and cells at least 8 wide, one of the cells
\* render_grid hands to render_wallpaper_cell is the selected position, with
\* an area of at least 3 by 3, so that render_wallpaper_cell draws it
\* (ui.rs:155-157).
C32_SelectedCellIsDrawn ==
    (/\ FrameHasFullRow
     /\ selected < Len(filtered_indices)
     /\ CellWidth(GridWidth(FrameInner)) >= 8) =>
        \E c \in FrameDrawn :
            /\ c.pos = selected
            /\ c.area.width >= 3
            /\ c.area.height >= 3

\* The last of 20 items is selected in a scrolled frame of one column of
\* cells 8 wide, and its cell is drawn 7 by 3.
C32_Witness ==
    /\ FrameHasFullRow
    /\ Len(filtered_indices) = 20
    /\ selected = 19
    /\ columns = 1
    /\ CellWidth(GridWidth(FrameInner)) = 8
    /\ FrameScrollOffset > 0
    /\ \E c \in FrameDrawn :
           c.pos = selected /\ c.area.width = 7 /\ c.area.height = 3

====
